---------------------------- MODULE Spec2Model ----------------------------
(***************************************************************************)
(* A model of src/src/extension.ts, the EmmyLua extension's entry module:  *)
(* the Java version check (validateJava), the server bootstrap             *)
(* (startServer / doStartServer / restartServer / stopServer), the editor  *)
(* event handlers and the progress-report handler.                         *)
(*                                                                         *)
(* Text is a sequence of one-character strings.  Two multi-character       *)
(* literals of the version pattern are written as one token each:          *)
(*   "J" stands for   java version "      (with its opening quote)         *)
(*   "O" stands for   openjdk version "   (with its opening quote)         *)
(* "Q" is the double quote, "N" a line terminator, "_" any other           *)
(* character that is neither a digit nor a dot.                            *)
(***************************************************************************)
EXTENDS Integers, Sequences, FiniteSets, TLC

\* ------------------------------------------------------------------ bounds
\* Longest text after the optional prefix tokens in the version-check inputs.
MaxVerLen == 5

\* ------------------------------------------------- text and the version regexp
Digits == {"0", "1", "8"}
VerChars == Digits \cup {".", "_", "Q", "N"}

IsDigit(c) == c \in Digits

\* `.` of a JavaScript regular expression: any character but a line terminator.
IsDot(c) == c # "N"

DigitVal(c) == CASE c = "0" -> 0 [] c = "1" -> 1 [] c = "8" -> 8 [] OTHER -> 0

\* parseInt(text) || 0 on a run of decimal digits; an unmatched group
\* (undefined, here the empty sequence) parses to NaN, which `|| 0` turns to 0.
RECURSIVE parseInt(_)
parseInt(ds) ==
    IF ds = <<>> THEN 0
    ELSE 10 * parseInt(SubSeq(ds, 1, Len(ds) - 1)) + DigitVal(ds[Len(ds)])

\* The length of the longest run of digits of s that starts at position i.
RECURSIVE DigitRun(_, _)
DigitRun(s, i) ==
    IF i > Len(s) \/ ~IsDigit(s[i]) THEN 0 ELSE 1 + DigitRun(s, i + 1)

\* The optional group (\.(\d+).+?)? followed by the closing quote, tried after a
\* major part of length a that starts at position p + 1: the pairs <<b, r>> of a
\* minor length b and a length r >= 1 of the lazy `.+?` for which the rest of
\* the pattern matches.
GroupCands(s, p, a) ==
    IF p + a + 1 > Len(s) \/ s[p + a + 1] # "." THEN {}
    ELSE { br \in (1..DigitRun(s, p + a + 2)) \X (1..Len(s)) :
             /\ p + a + 2 + br[1] + br[2] <= Len(s)
             /\ \A k \in (p + a + 2 + br[1])..(p + a + 1 + br[1] + br[2]) : IsDot(s[k])
             /\ s[p + a + 2 + br[1] + br[2]] = "Q" }

\* The backtracking order inside the group: \d+ is greedy (longest minor
\* first) and for each minor `.+?` is lazy (shortest first).
GroupFirst(s, p, a) ==
    CHOOSE br \in GroupCands(s, p, a) :
        \A o \in GroupCands(s, p, a) :
            \/ br[1] > o[1]
            \/ (br[1] = o[1] /\ br[2] <= o[2])

\* The match that starts with the prefix token at position p and a major part
\* of length a, if there is one: the group is tried before it is skipped.
MatchAt(s, p, a) ==
    IF GroupCands(s, p, a) # {}
    THEN LET br == GroupFirst(s, p, a)
         IN  [found |-> TRUE,
              full  |-> SubSeq(s, p + 1, p + a + 1 + br[1] + br[2]),
              major |-> SubSeq(s, p + 1, p + a),
              minor |-> SubSeq(s, p + a + 2, p + a + 1 + br[1])]
    ELSE IF p + a + 1 <= Len(s) /\ s[p + a + 1] = "Q"
    THEN [found |-> TRUE,
          full  |-> SubSeq(s, p + 1, p + a),
          major |-> SubSeq(s, p + 1, p + a),
          minor |-> <<>>]
    ELSE [found |-> FALSE, full |-> <<>>, major |-> <<>>, minor |-> <<>>]

\* The major lengths at position p with which the pattern matches.
MajorLens(s, p) == { a \in 1..DigitRun(s, p + 1) : MatchAt(s, p, a).found }

\* The positions of s at which the pattern matches.
MatchStarts(s) ==
    { p \in 1..Len(s) : s[p] \in {"J", "O"} /\ MajorLens(s, p) # {} }

\* regexp.exec(stderr) for
\*   /(?:java|openjdk) version "((\d+)(\.(\d+).+?)?)"/g
\* on a fresh regexp: the leftmost match, the greedy major part first.
\* full, major and minor are match[1], match[2] and match[4].
regexpExec(s) ==
    IF MatchStarts(s) = {}
    THEN [found |-> FALSE, full |-> <<>>, major |-> <<>>, minor |-> <<>>]
    ELSE LET p == CHOOSE q \in MatchStarts(s) : \A o \in MatchStarts(s) : q <= o
             a == CHOOSE x \in MajorLens(s, p) : \A o \in MajorLens(s, p) : x >= o
         IN  MatchAt(s, p, a)

\* The java 1.8+ test of validateJava on the parsed numbers.
VersionAccepted(major, minor) == major > 1 \/ (major = 1 /\ minor >= 8)

\* validateJava's promise as decided by the exec callback from stderr:
\* kind "resolve", or kind "reject" with the string the promise is rejected with
\* (the rejection value is a string, not an Error object).
validateJava(stderr) ==
    LET match == regexpExec(stderr)
    IN  IF stderr # <<>> /\ match.found
        THEN IF VersionAccepted(parseInt(match.major), parseInt(match.minor))
             THEN [kind |-> "resolve", reason |-> "none", version |-> <<>>]
             ELSE [kind |-> "reject", reason |-> "UnsupportedJavaVersion",
                   version |-> match.full]
        ELSE [kind |-> "reject", reason |-> "CantFindJava", version |-> <<>>]

\* --------------------------------------------------------------- the machine
\* Bounds of the model.
\* startServer invocations (first start, restarts and retries together).
MaxAttempts == 2
\* restartServer's pending `client.stop().then(startServer)` per connection.
MaxWaiters == 1
\* emmy/progressReport notifications received.
MaxReports == 2

LANGUAGE_ID == "lua"

\* The documents open in the host, with their language identifiers.
Docs == {"a.lua", "b.txt"}
languageId(doc) == IF doc = "a.lua" THEN "lua" ELSE "plaintext"

\* What findJava() can return: two installations, or null.
JavaPaths == {"null", "oldJdk", "jdk8"}

\* `javaExecutablePath || "java"`.
ExePath(path) == IF path = "null" THEN "java" ELSE path

\* What `"<exe>" -version` writes to stderr: the bare command is not on the
\* PATH (a shell error, no version line), oldJdk is a JDK 1.1.8 and jdk8 a
\* JDK 1.8.0_1.
StderrOf(exe) ==
    CASE exe = "jdk8"   -> <<"J", "1", ".", "8", ".", "0", "_", "1", "Q", "N", "_">>
      [] exe = "oldJdk" -> <<"J", "1", ".", "1", ".", "8", "Q", "N", "_">>
      [] OTHER          -> <<"_", "_", "N">>

\* The executables validateJava may query, and what it makes of each one's
\* version output (lines 100-121).
Executables == {ExePath(path) : path \in JavaPaths}
versionCheck == [exe \in Executables |-> validateJava(StderrOf(exe))]

\* No connection / no editor / no task: JavaScript's undefined.
Undefined == 0
NoEditor == "undefined"

VARIABLES
    phase,               \* "loaded", "active" (activate ran), "deactivated"
    DEBUG_MODE,          \* line 19, set by activate from EMMY_DEV
    javaExecutablePath,  \* line 25
    client,              \* line 22: Undefined or an index of conns
    activeEditor,        \* line 23: NoEditor or a document
    windowEditor,        \* the host's vscode.window.activeTextEditor
    progressBar,         \* line 24: [visible, text]
    timers,              \* pending setTimeout(hide, 3000), oldest first: the
                         \* number of the report that scheduled each
    reports,             \* the percent of each progress report received so far
    tasks,               \* the startServer invocations, in order of invocation
    conns,               \* the LanguageClients created, in order of creation
    emitted,             \* what the last step sent out (requests, annotator calls)
    vStderr,             \* the stderr of a stand-alone version query
    vOutcome,            \* what validateJava made of it
    platform,            \* process.platform
    picks,               \* the architecture prompts of line 249 not answered yet:
                         \* the editor each invocation captured at line 235
    edits                \* the snippets inserted by line 268, oldest first

vars == <<phase, DEBUG_MODE, javaExecutablePath, client, activeEditor,
          windowEditor, progressBar, timers, reports, tasks, conns, emitted,
          vStderr, vOutcome, platform, picks, edits>>

snippetVars == <<platform, picks, edits>>

versionVars == <<vStderr, vOutcome>>
progressVars == <<progressBar, timers, reports>>
editorVars == <<activeEditor, windowEditor>>

\* A connection is Ready: its handshake completed and no stop was asked of it.
IsReady(c) == c # Undefined /\ conns[c].hs = "ready" /\ conns[c].st = "none"

\* A connection is live: started (every connection is started when it is
\* created, line 192) and not stopped.
IsLive(c) == conns[c].st # "done"

\* startServer mutated: the development-mode test of line 127 is lost and no
\* invocation validates.
startServerNoValidation(origin, debug, path) ==
    [pc |-> "watch", origin |-> origin, exe |-> "none",
     validated |-> FALSE, conn |-> Undefined,
     failure |-> "none", message |-> "none"]

\* ---- startServer, lines 125-143, up to its first suspension.
\* In production mode validateJava is called: it reads javaExecutablePath
\* (line 100), launches the version query and the invocation waits for the exec
\* callback.  In development mode doStartServer is entered at once and waits
\* for configWatcher.watch() (line 146).
startServer(origin, debug, path) ==
    IF ~debug
    THEN [pc |-> "validateJava", origin |-> origin, exe |-> ExePath(path),
          validated |-> FALSE, conn |-> Undefined,
          failure |-> "none", message |-> "none"]
    ELSE [pc |-> "watch", origin |-> origin, exe |-> "none",
          validated |-> FALSE, conn |-> Undefined,
          failure |-> "none", message |-> "none"]

\* vscode.window.showErrorMessage(message, "Try again") of lines 132 and 140:
\* the invocation ends with the message on screen.  In the catch of line 130
\* the rejection value is a string, so `e.message` is undefined; line 140
\* formats the reason into the message.
ValidationFailedTask(task, failure) ==
    [task EXCEPT !.pc = "dialog", !.failure = failure, !.message = "undefined"]

ConnectFailedTask(task, failure) ==
    [task EXCEPT !.pc = "dialog", !.failure = failure,
                 !.message = "Failed to start: " \o failure]

\* ---- doStartServer, lines 145-204.
\* The transport of lines 164-189: the fixed local socket in development mode,
\* a spawned process otherwise.
serverTransport(debug) == IF debug THEN "socket" ELSE "process"

\* Lines 183-188: the command of the spawned server, read from
\* javaExecutablePath when the connection is built.
serverCommand(debug, path) == IF debug THEN "none" ELSE ExePath(path)

\* Lines 191-192: the LanguageClient created and started by invocation t.
newClient(t, debug, path) ==
    [transport |-> serverTransport(debug), exe |-> serverCommand(debug, path),
     hs |-> "pending", st |-> "none", waiters |-> 0, handler |-> FALSE,
     lost |-> FALSE, task |-> t]

\* client.stop(): a stop is asked of the connection (a stopped connection stays
\* stopped); restartServer chains startServer on the promise it returns.
stopCalled(conn, chained) ==
    [conn EXCEPT !.st = IF @ = "done" THEN "done" ELSE "requested",
                 !.waiters = IF chained THEN @ + 1 ELSE @]

\* ---- what a step sends out.
\* Annotator.requestAnnotators(editor, client), lines 69 and 76.
annotatorCall(doc) ==
    [kind |-> "requestAnnotators", doc |-> doc, conn |-> client,
     ready |-> IsReady(client), payload |-> "none"]

\* Annotator.onDidChangeConfiguration(client), line 92.
annotatorConfigCall ==
    [kind |-> "annotatorConfiguration", doc |-> NoEditor, conn |-> client,
     ready |-> IsReady(client), payload |-> "none"]

\* The update events the config watcher emits (IEmmyConfigUpdate).
ConfigUpdates == {"update1", "update2"}

\* client.sendRequest('emmy/updateConfig', e), line 230.
updateConfigRequest(e) ==
    [kind |-> "emmy/updateConfig", doc |-> NoEditor, conn |-> client,
     ready |-> IsReady(client), payload |-> e]

\* ---- onDidChangeActiveTextEditor, lines 73-78: the new activeEditor.
activeEditorAfter(editor) ==
    IF editor # NoEditor /\ languageId(editor) = LANGUAGE_ID
    THEN editor ELSE activeEditor

\* The test of line 74 mutated: the language of the new editor is not looked at.
activeEditorQualifiesAnyLanguage(editor) == editor # NoEditor

\* Does onDidChangeActiveTextEditor(editor) call the annotator?
activeEditorQualifies(editor) ==
    editor # NoEditor /\ languageId(editor) = LANGUAGE_ID

\* Does onDidChangeTextDocument(event) call the annotator? (line 68)
textChangeQualifies(doc) ==
    /\ activeEditor # NoEditor
    /\ activeEditor = doc
    /\ languageId(activeEditor) = LANGUAGE_ID

\* restartServer mutated: the test of line 207 is inverted.
restartServerInverted(path) ==
    IF client # Undefined
    THEN [tasks |-> Append(tasks, startServer("restart", DEBUG_MODE, path)),
          conns |-> conns]
    ELSE [tasks |-> tasks, conns |-> conns]

\* restartServer mutated: the new start is not chained on the stop
\* (`client.stop(); startServer();`).
restartServerWithoutWaiting(path) ==
    IF client = Undefined
    THEN [tasks |-> Append(tasks, startServer("restart", DEBUG_MODE, path)),
          conns |-> conns]
    ELSE [tasks |-> Append(tasks, startServer("restartAfterStop", DEBUG_MODE, path)),
          conns |-> [conns EXCEPT ![client] = stopCalled(@, FALSE)]]

\* ---- restartServer, lines 206-212: the invocations and connections after it.
restartServerEffect(path) ==
    IF client = Undefined
    THEN [tasks |-> Append(tasks, startServer("restart", DEBUG_MODE, path)),
          conns |-> conns]
    ELSE [tasks |-> tasks,
          conns |-> [conns EXCEPT ![client] = stopCalled(@, TRUE)]]

\* The bounds leave room for restartServer.
CanRestart ==
    IF client = Undefined THEN Len(tasks) < MaxAttempts
    ELSE conns[client].waiters < MaxWaiters

\* ---- the emmy/progressReport handler, lines 195-203.
\* Does the handler schedule the 3-second hide?
schedulesHide(percent) == percent >= 1

\* The handler mutated: a report cancels the hides scheduled before it.
progressHandlerDebounced(percent) ==
    [bar    |-> [visible |-> TRUE, text |-> Len(reports) + 1],
     timers |-> IF schedulesHide(percent)
                THEN <<Len(reports) + 1>> ELSE <<>>]

progressHandler(percent) ==
    [bar    |-> [visible |-> TRUE, text |-> Len(reports) + 1],
     timers |-> IF schedulesHide(percent)
                THEN Append(timers, Len(reports) + 1) ELSE timers]

\* The callback mutated: the hide is skipped when a later report has shown
\* the indicator (last write wins).
hideCallbackUnlessSuperseded(bar) ==
    IF bar.text = Head(timers) THEN [bar EXCEPT !.visible = FALSE] ELSE bar

\* The timer's callback, line 200: progressBar.hide().
hideCallback(bar) == [bar EXCEPT !.visible = FALSE]

\* The values d.percent takes: below 1, and 1.
Percents == {0, 1}

\* ------------------------------------------------------------------ actions
Init ==
    /\ phase = "loaded"
    /\ DEBUG_MODE = FALSE
    /\ javaExecutablePath = "null"
    /\ client = Undefined
    /\ activeEditor = NoEditor
    /\ windowEditor \in Docs \cup {NoEditor}
    /\ progressBar = [visible |-> FALSE, text |-> 0]
    /\ timers = <<>>
    /\ reports = <<>>
    /\ tasks = <<>>
    /\ conns = <<>>
    /\ emitted = <<>>
    /\ vStderr = <<>>
    /\ vOutcome = [kind |-> "pending", reason |-> "none", version |-> <<>>]
    /\ platform = "linux"
    /\ picks = <<>>
    /\ edits = <<>>

\* activate, lines 28-56: EMMY_DEV is read, findJava() cached, the handlers
\* registered and startServer called.
activate(dev, path) ==
    /\ phase = "loaded"
    /\ phase' = "active"
    /\ DEBUG_MODE' = dev
    /\ javaExecutablePath' = path
    /\ tasks' = Append(tasks, startServer("activate", dev, path))
    /\ emitted' = <<>>
    /\ UNCHANGED <<client, conns, editorVars, progressVars, versionVars, snippetVars>>

\* The exec callback of validateJava, lines 104-121, and startServer's
\* continuation after `await validateJava()`: doStartServer is entered and
\* waits for configWatcher.watch(), or the catch of line 130 shows the message.
execCallback(t) ==
    /\ tasks[t].pc = "validateJava"
    /\ LET r == versionCheck[tasks[t].exe]
       IN  tasks' = [tasks EXCEPT ![t] =
                IF r.kind = "resolve"
                THEN [@ EXCEPT !.pc = "watch", !.validated = TRUE]
                ELSE ValidationFailedTask(@, r.reason)]
    /\ emitted' = <<>>
    /\ UNCHANGED <<phase, DEBUG_MODE, javaExecutablePath, client, conns,
                   editorVars, progressVars, versionVars, snippetVars>>

\* doStartServer mutated: `await client.onReady()` is lost and the progress
\* handler is registered as soon as the client is started.
watchResolvedRegistersEarly(t) ==
    /\ tasks[t].pc = "watch"
    /\ conns' = Append(conns, [newClient(t, DEBUG_MODE, javaExecutablePath)
                                  EXCEPT !.handler = TRUE])
    /\ client' = Len(conns) + 1
    /\ tasks' = [tasks EXCEPT ![t] = [@ EXCEPT !.pc = "onReady",
                                               !.conn = Len(conns) + 1]]
    /\ emitted' = <<>>
    /\ UNCHANGED <<phase, DEBUG_MODE, javaExecutablePath, editorVars,
                   progressVars, versionVars, snippetVars>>

\* configWatcher.watch() resolves, line 146; lines 147-193 run: the client is
\* created, assigned to `client`, started, and the invocation waits for
\* client.onReady().
watchResolved(t) ==
    /\ tasks[t].pc = "watch"
    /\ conns' = Append(conns, newClient(t, DEBUG_MODE, javaExecutablePath))
    /\ client' = Len(conns) + 1
    /\ tasks' = [tasks EXCEPT ![t] = [@ EXCEPT !.pc = "onReady",
                                               !.conn = Len(conns) + 1]]
    /\ emitted' = <<>>
    /\ UNCHANGED <<phase, DEBUG_MODE, javaExecutablePath, editorVars,
                   progressVars, versionVars, snippetVars>>

\* configWatcher.watch() rejects: doStartServer rejects and the catch of
\* line 139 shows the message.
watchRejected(t) ==
    /\ tasks[t].pc = "watch"
    /\ tasks' = [tasks EXCEPT ![t] = ConnectFailedTask(@, "watch")]
    /\ emitted' = <<>>
    /\ UNCHANGED <<phase, DEBUG_MODE, javaExecutablePath, client, conns,
                   editorVars, progressVars, versionVars, snippetVars>>

\* The server completes the handshake of connection c: client.onReady()
\* resolves and doStartServer continues at line 194.  Line 195 registers the
\* progress handler on whatever `client` holds now; the library refuses
\* (throws "Language client is not ready yet") unless that connection is
\* running, and then doStartServer rejects.  Otherwise line 137 runs
\* onDidChangeActiveTextEditor(vscode.window.activeTextEditor).
connReady(c) ==
    /\ conns[c].hs = "pending"
    /\ conns[c].st # "done"
    /\ tasks[conns[c].task].pc = "onReady"
    /\ LET t == conns[c].task
           cs == [conns EXCEPT ![c] = [@ EXCEPT !.hs = "ready"]]
           running == cs[client].hs = "ready" /\ cs[client].st = "none"
       IN  IF running
           THEN /\ conns' = [cs EXCEPT ![client] = [@ EXCEPT !.handler = TRUE]]
                /\ tasks' = [tasks EXCEPT ![t] = [@ EXCEPT !.pc = "ready"]]
                /\ activeEditor' = activeEditorAfter(windowEditor)
                /\ emitted' = IF activeEditorQualifies(windowEditor)
                              THEN << [kind |-> "requestAnnotators",
                                       doc |-> windowEditor, conn |-> client,
                                       ready |-> TRUE, payload |-> "none"] >>
                              ELSE <<>>
           ELSE /\ conns' = cs
                /\ tasks' = [tasks EXCEPT ![t] = ConnectFailedTask(@, "notReady")]
                /\ activeEditor' = activeEditor
                /\ emitted' = <<>>
    /\ UNCHANGED <<phase, DEBUG_MODE, javaExecutablePath, client, windowEditor,
                   progressVars, versionVars, snippetVars>>

\* The start of connection c fails (the process cannot be spawned, the socket
\* is refused, the handshake fails): client.onReady() rejects and the catch of
\* line 139 shows the message.
connFailed(c) ==
    /\ conns[c].hs = "pending"
    /\ conns[c].st # "done"
    /\ tasks[conns[c].task].pc = "onReady"
    /\ conns' = [conns EXCEPT ![c] = [@ EXCEPT !.hs = "failed"]]
    /\ tasks' = [tasks EXCEPT ![conns[c].task] = ConnectFailedTask(@, "handshake")]
    /\ emitted' = <<>>
    /\ UNCHANGED <<phase, DEBUG_MODE, javaExecutablePath, client, editorVars,
                   progressVars, versionVars, snippetVars>>

\* The socket of connection c is closed before the handshake completes (the
\* server is not listening, or drops the connection): the handler of lines
\* 177-179 runs and logs.  It rejects nothing: the StreamInfo promise of line
\* 180 was resolved when the socket was created, and the invocation keeps
\* waiting at line 193 for what the client library makes of the closed stream
\* (it may call serverOptions again and complete the handshake on a new socket,
\* connReady; reject onReady, connFailed; or neither).
socketClosed(c) ==
    /\ conns[c].transport = "socket"
    /\ conns[c].hs = "pending"
    /\ conns[c].st = "none"
    /\ ~conns[c].lost
    /\ conns' = [conns EXCEPT ![c] = [@ EXCEPT !.lost = TRUE]]
    /\ emitted' = << [kind |-> "console.log", doc |-> NoEditor, conn |-> c,
                      ready |-> FALSE, payload |-> "none"] >>
    /\ UNCHANGED <<phase, DEBUG_MODE, javaExecutablePath, client, tasks,
                   editorVars, progressVars, versionVars, snippetVars>>

\* The `.then(startServer)` of lines 133 and 141 mutated: the answer to the
\* message starts nothing.
answerDialogStartsNothing(t, answer) ==
    /\ tasks[t].pc = "dialog"
    /\ Len(tasks) < MaxAttempts
    /\ tasks' = [tasks EXCEPT ![t] = [@ EXCEPT !.pc = answer]]
    /\ emitted' = <<>>
    /\ UNCHANGED <<phase, DEBUG_MODE, javaExecutablePath, client, conns,
                   editorVars, progressVars, versionVars, snippetVars>>

\* The user answers a message of lines 132/140.  showErrorMessage's promise
\* resolves with the chosen item, or with undefined when the message is
\* dismissed; `.then(startServer)` runs startServer in both cases.
answerDialog(t, answer) ==
    /\ tasks[t].pc = "dialog"
    /\ Len(tasks) < MaxAttempts
    /\ tasks' = Append([tasks EXCEPT ![t] = [@ EXCEPT !.pc = answer]],
                       startServer("retry", DEBUG_MODE, javaExecutablePath))
    /\ emitted' = <<>>
    /\ UNCHANGED <<phase, DEBUG_MODE, javaExecutablePath, client, conns,
                   editorVars, progressVars, versionVars, snippetVars>>

tryAgain(t) == answerDialog(t, "Try again")

dismiss(t) == answerDialog(t, "dismissed")

\* The emmy.restartServer command, line 38: restartServer().
restartCommand ==
    /\ phase = "active"
    /\ CanRestart
    /\ tasks' = restartServerEffect(javaExecutablePath).tasks
    /\ conns' = restartServerEffect(javaExecutablePath).conns
    /\ emitted' = <<>>
    /\ UNCHANGED <<phase, DEBUG_MODE, javaExecutablePath, client, editorVars,
                   progressVars, versionVars, snippetVars>>

\* onDidChangeConfiguration mutated: the assignment of line 88 is lost and the
\* cache keeps the old path.
onDidChangeConfigurationStaleCache(path) ==
    /\ phase = "active"
    /\ javaExecutablePath' = javaExecutablePath
    /\ emitted' = <<annotatorConfigCall>>
    /\ IF path # javaExecutablePath
       THEN /\ CanRestart
            /\ tasks' = restartServerEffect(path).tasks
            /\ conns' = restartServerEffect(path).conns
       ELSE UNCHANGED <<tasks, conns>>
    /\ UNCHANGED <<phase, DEBUG_MODE, client, editorVars, progressVars,
                   versionVars, snippetVars>>

\* onDidChangeConfiguration, lines 84-97, when findJava() returns path.
onDidChangeConfiguration(path) ==
    /\ phase = "active"
    /\ javaExecutablePath' = path
    /\ emitted' = <<annotatorConfigCall>>
    /\ IF path # javaExecutablePath
       THEN /\ CanRestart
            /\ tasks' = restartServerEffect(path).tasks
            /\ conns' = restartServerEffect(path).conns
       ELSE UNCHANGED <<tasks, conns>>
    /\ UNCHANGED <<phase, DEBUG_MODE, client, editorVars, progressVars,
                   versionVars, snippetVars>>

\* onDidChangeTextDocument, lines 67-71, for a change of document doc.
onDidChangeTextDocument(doc) ==
    /\ phase = "active"
    /\ emitted' = IF textChangeQualifies(doc)
                  THEN <<annotatorCall(activeEditor)>> ELSE <<>>
    /\ UNCHANGED <<phase, DEBUG_MODE, javaExecutablePath, client, tasks, conns,
                   editorVars, progressVars, versionVars, snippetVars>>

\* The focus moves to editor (or to none) and the host calls
\* onDidChangeActiveTextEditor, lines 73-78.
onDidChangeActiveTextEditor(editor) ==
    /\ phase = "active"
    /\ windowEditor' = editor
    /\ activeEditor' = activeEditorAfter(editor)
    /\ emitted' = IF activeEditorQualifies(editor)
                  THEN <<annotatorCall(editor)>> ELSE <<>>
    /\ UNCHANGED <<phase, DEBUG_MODE, javaExecutablePath, client, tasks, conns,
                   progressVars, versionVars, snippetVars>>

\* onConfigUpdate, lines 228-232: the config watcher emits the update event e.
onConfigUpdate(e) ==
    /\ phase = "active"
    /\ emitted' = IF client # Undefined THEN <<updateConfigRequest(e)>> ELSE <<>>
    /\ UNCHANGED <<phase, DEBUG_MODE, javaExecutablePath, client, tasks, conns,
                   editorVars, progressVars, versionVars, snippetVars>>

\* The stop asked of connection c completes: the connection is stopped.
stopCompleted(c) ==
    /\ conns[c].st = "requested"
    /\ conns' = [conns EXCEPT ![c] = [@ EXCEPT !.st = "done"]]
    /\ emitted' = <<>>
    /\ UNCHANGED <<phase, DEBUG_MODE, javaExecutablePath, client, tasks,
                   editorVars, progressVars, versionVars, snippetVars>>

\* The stop asked of connection c fails: the promise of client.stop() rejects
\* and the startServer chained on it by line 210 never runs.
stopFailed(c) ==
    /\ conns[c].st = "requested"
    /\ conns' = [conns EXCEPT ![c] = [@ EXCEPT !.st = "failed", !.waiters = 0]]
    /\ emitted' = <<>>
    /\ UNCHANGED <<phase, DEBUG_MODE, javaExecutablePath, client, tasks,
                   editorVars, progressVars, versionVars, snippetVars>>

\* Line 210: the promise of client.stop() has resolved and the chained
\* startServer runs.
stopThenStart(c) ==
    /\ conns[c].st = "done"
    /\ conns[c].waiters > 0
    /\ Len(tasks) < MaxAttempts
    /\ conns' = [conns EXCEPT ![c] = [@ EXCEPT !.waiters = @ - 1]]
    /\ tasks' = Append(tasks, startServer("restartAfterStop", DEBUG_MODE,
                                          javaExecutablePath))
    /\ emitted' = <<>>
    /\ UNCHANGED <<phase, DEBUG_MODE, javaExecutablePath, client, editorVars,
                   progressVars, versionVars, snippetVars>>

\* stopServer, lines 222-226.
stopServer(cs) ==
    IF client # Undefined
    THEN [cs EXCEPT ![client] = stopCalled(@, FALSE)]
    ELSE cs

\* Line 192 pushes the Disposable of client.start() to the context's
\* subscriptions, which the host disposes when the extension is deactivated:
\* each disposes by stopping its client if that is starting or running.
disposeSubscriptions(cs) ==
    [c \in DOMAIN cs |->
        IF cs[c].st = "none" /\ cs[c].hs \in {"pending", "ready"}
        THEN stopCalled(cs[c], FALSE) ELSE cs[c]]

\* deactivate, lines 80-82, and the disposal of the subscriptions after it.
deactivate ==
    /\ phase = "active"
    /\ phase' = "deactivated"
    /\ conns' = disposeSubscriptions(stopServer(conns))
    /\ emitted' = <<>>
    /\ UNCHANGED <<DEBUG_MODE, javaExecutablePath, client, tasks, editorVars,
                   progressVars, versionVars, snippetVars>>

\* The server sends emmy/progressReport over connection c, on which the
\* handler of lines 195-203 is registered.
progressReport(c, percent) ==
    /\ conns[c].handler
    /\ conns[c].hs = "ready"
    /\ conns[c].st # "done"
    /\ Len(reports) < MaxReports
    /\ progressBar' = progressHandler(percent).bar
    /\ timers' = progressHandler(percent).timers
    /\ reports' = Append(reports, percent)
    /\ emitted' = <<>>
    /\ UNCHANGED <<phase, DEBUG_MODE, javaExecutablePath, client, tasks, conns,
                   editorVars, versionVars, snippetVars>>

\* The oldest pending timer of line 199 fires (all have the same delay).
timerFire ==
    /\ timers # <<>>
    /\ progressBar' = hideCallback(progressBar)
    /\ timers' = Tail(timers)
    /\ emitted' = <<>>
    /\ UNCHANGED <<phase, DEBUG_MODE, javaExecutablePath, client, tasks, conns,
                   editorVars, reports, versionVars, snippetVars>>

\* ---- insertEmmyDebugCode, lines 234-269.
\* Invocations of the command that prompt or insert.
MaxSnippets == 2

\* process.platform: the three platforms the command names, and another one.
Platforms == {"win32", "darwin", "linux", "freebsd"}

\* The items of the quick pick of line 249.
Archs == {"x64", "x86"}

\* A path is the sequence of its segments and separators.
pathSep(p) == IF p = "win32" THEN "\\" ELSE "/"

\* savedContext.extensionPath.
extensionPath(p) ==
    IF p = "win32" THEN <<"C:", "\\", "ext">> ELSE <<"", "/", "ext">>

\* path.join(base, segs): the platform's separator between the segments.
RECURSIVE pathJoin(_, _, _)
pathJoin(p, base, segs) ==
    IF segs = <<>> THEN base
    ELSE pathJoin(p, base \o <<pathSep(p), Head(segs)>>, Tail(segs))

\* Lines 244-260: dllPath, '' unless one of the three branches assigns it.
dllPath(p, arch) ==
    IF p = "win32"
    THEN pathJoin(p, extensionPath(p), <<"debugger", "emmy", "windows", arch, "?.dll">>)
    ELSE IF p = "darwin"
    THEN pathJoin(p, extensionPath(p), <<"debugger", "emmy", "mac", "emmy_core.dylib">>)
    ELSE IF p = "linux"
    THEN pathJoin(p, extensionPath(p), <<"debugger", "emmy", "linux", "emmy_core.so">>)
    ELSE <<>>

\* dllPath.replace(/\\/g, '/'), line 265.
replaceBackslashes(path) ==
    [i \in DOMAIN path |-> IF path[i] = "\\" THEN "/" ELSE path[i]]

\* Lines 262-268: the snippet inserted into the editor captured at line 235.
snippet(editor, path) ==
    [doc |-> editor, cpath |-> replaceBackslashes(path),
     host |-> "localhost", port |-> 9966]

\* The emmy.insertEmmyDebugCode command, up to the prompt of line 249 on
\* Windows and to the insertion of line 268 elsewhere.
insertEmmyDebugCode ==
    /\ phase = "active"
    /\ IF windowEditor = NoEditor
       THEN UNCHANGED <<picks, edits>>
       ELSE IF languageId(windowEditor) # "lua"
       THEN UNCHANGED <<picks, edits>>
       ELSE /\ Len(picks) + Len(edits) < MaxSnippets
            /\ IF platform = "win32"
               THEN /\ picks' = Append(picks, windowEditor)
                    /\ edits' = edits
               ELSE /\ edits' = Append(edits, snippet(windowEditor,
                                                      dllPath(platform, "none")))
                    /\ picks' = picks
    /\ emitted' = <<>>
    /\ UNCHANGED <<phase, DEBUG_MODE, javaExecutablePath, client, tasks, conns,
                   editorVars, progressVars, versionVars, platform>>

\* The quick pick of invocation i is answered with arch, or dismissed
\* ("undefined"): lines 250-268.
quickPickAnswered(i, arch) ==
    /\ i \in DOMAIN picks
    /\ picks' = SubSeq(picks, 1, i - 1) \o SubSeq(picks, i + 1, Len(picks))
    /\ edits' = IF arch = "undefined" THEN edits
                ELSE Append(edits, snippet(picks[i], dllPath(platform, arch)))
    /\ emitted' = <<>>
    /\ UNCHANGED <<phase, DEBUG_MODE, javaExecutablePath, client, tasks, conns,
                   editorVars, progressVars, versionVars, platform>>

\* The bootstrap: activation, the start attempts, restarts, stops, retries.
Boot ==
    \/ \E dev \in BOOLEAN, path \in JavaPaths : activate(dev, path)
    \/ \E t \in DOMAIN tasks : execCallback(t)
    \/ \E t \in DOMAIN tasks : watchResolved(t)
    \/ \E t \in DOMAIN tasks : watchRejected(t)
    \/ \E c \in DOMAIN conns : connReady(c)
    \/ \E c \in DOMAIN conns : connFailed(c)
    \/ \E c \in DOMAIN conns : socketClosed(c)
    \/ \E t \in DOMAIN tasks : tryAgain(t)
    \/ \E t \in DOMAIN tasks : dismiss(t)
    \/ restartCommand
    \/ \E path \in JavaPaths : onDidChangeConfiguration(path)
    \/ \E c \in DOMAIN conns : stopCompleted(c)
    \/ \E c \in DOMAIN conns : stopFailed(c)
    \/ \E c \in DOMAIN conns : stopThenStart(c)
    \/ deactivate

\* The editor's and the config watcher's events.
Events ==
    \/ \E doc \in Docs : onDidChangeTextDocument(doc)
    \/ \E editor \in Docs \cup {NoEditor} : onDidChangeActiveTextEditor(editor)
    \/ \E e \in ConfigUpdates : onConfigUpdate(e)

\* The server's progress reports and the timers they schedule.
Progress ==
    \/ \E c \in DOMAIN conns, percent \in Percents : progressReport(c, percent)
    \/ timerFire

\* The bootstrap with the editor's and the watcher's events.  The progress
\* indicator is left to SpecProgress: no action of Events reads or writes it.
Next == Boot \/ Events

Spec == Init /\ [][Next]_vars

\* One session: the activation's start attempt up to Ready or failure, and
\* the deactivation.
Session ==
    \/ \E dev \in BOOLEAN, path \in JavaPaths : activate(dev, path)
    \/ \E t \in DOMAIN tasks : execCallback(t)
    \/ \E t \in DOMAIN tasks : watchResolved(t)
    \/ \E t \in DOMAIN tasks : watchRejected(t)
    \/ \E c \in DOMAIN conns : connReady(c)
    \/ \E c \in DOMAIN conns : connFailed(c)
    \/ \E c \in DOMAIN conns : stopCompleted(c)
    \/ \E c \in DOMAIN conns : stopFailed(c)
    \/ deactivate

\* A session with the progress reports.  No action outside Progress reads or
\* writes the indicator or the timers, and Progress reads of the bootstrap only
\* that some connection carries the handler: restarts and retries add no
\* behaviour of the indicator, and are left to Spec.
NextProgress == Session \/ Progress

SpecProgress == Init /\ [][NextProgress]_vars

\* The behaviours in which no connection has been created yet (`client` is
\* undefined): everything but the creation of the client and what follows it.
NextNoClient ==
    \/ \E dev \in BOOLEAN, path \in JavaPaths : activate(dev, path)
    \/ \E t \in DOMAIN tasks : execCallback(t)
    \/ \E t \in DOMAIN tasks : watchRejected(t)
    \/ \E t \in DOMAIN tasks : tryAgain(t)
    \/ \E t \in DOMAIN tasks : dismiss(t)
    \/ restartCommand
    \/ \E path \in JavaPaths : onDidChangeConfiguration(path)
    \/ deactivate
    \/ Events

SpecNoClient == Init /\ [][NextNoClient]_vars

\* One session with the editor's and the watcher's events.  The handlers of
\* Events read of the bootstrap only `client`; restarts and retries add no
\* behaviour of the handlers, and are left to Spec.
NextEditing == Session \/ Events

SpecEditing == Init /\ [][NextEditing]_vars

\* ------------------------------------------- startup with a persistent user
\* The failure messages not answered yet.
OpenDialogs == Cardinality({t \in DOMAIN tasks : tasks[t].pc = "dialog"})

\* A failure of the environment is considered only while the bound on the
\* invocations leaves room for the retry that answers it.
RetryLeft == Len(tasks) + OpenDialogs < MaxAttempts

\* The first start and its retries, with a user who answers every failure
\* message with "Try again" and may correct the Java path while no connection
\* exists (restartServer is then a plain startServer, line 208).
NextRetry ==
    \/ \E dev \in BOOLEAN, path \in JavaPaths : activate(dev, path)
    \/ \E t \in DOMAIN tasks : execCallback(t)
    \/ \E t \in DOMAIN tasks : watchResolved(t)
    \/ \E t \in DOMAIN tasks : RetryLeft /\ watchRejected(t)
    \/ \E c \in DOMAIN conns : connReady(c)
    \/ \E c \in DOMAIN conns : RetryLeft /\ connFailed(c)
    \/ \E t \in DOMAIN tasks : tryAgain(t)
    \/ \E path \in JavaPaths : client = Undefined /\ onDidChangeConfiguration(path)

\* The event loop runs every callback that is due: the exec callback of the
\* version query, the continuation of a settled promise.  The watcher's scan
\* completes and the server completes its handshake unless they fail; the user
\* answers every failure message with "Try again".
FairRetry ==
    /\ WF_vars(\E t \in DOMAIN tasks : execCallback(t))
    /\ WF_vars(\E t \in DOMAIN tasks : watchResolved(t))
    /\ WF_vars(\E c \in DOMAIN conns : connReady(c))
    /\ WF_vars(\E t \in DOMAIN tasks : tryAgain(t))

SpecRetry == Init /\ [][NextRetry]_vars /\ FairRetry

\* ------------------------------------------- the debug snippet on its own
InitSnippet ==
    /\ phase = "loaded"
    /\ DEBUG_MODE = FALSE
    /\ javaExecutablePath = "null"
    /\ client = Undefined
    /\ activeEditor = NoEditor
    /\ windowEditor \in Docs \cup {NoEditor}
    /\ progressBar = [visible |-> FALSE, text |-> 0]
    /\ timers = <<>>
    /\ reports = <<>>
    /\ tasks = <<>>
    /\ conns = <<>>
    /\ emitted = <<>>
    /\ vStderr = <<>>
    /\ vOutcome = [kind |-> "pending", reason |-> "none", version |-> <<>>]
    /\ platform \in Platforms
    /\ picks = <<>>
    /\ edits = <<>>

\* The command, its prompt and the focus changes around them.
NextSnippet ==
    \/ \E dev \in BOOLEAN, path \in JavaPaths : activate(dev, path)
    \/ insertEmmyDebugCode
    \/ \E i \in 1..MaxSnippets, arch \in Archs \cup {"undefined"} :
          quickPickAnswered(i, arch)
    \/ \E editor \in Docs \cup {NoEditor} : onDidChangeActiveTextEditor(editor)
    \/ deactivate

SpecSnippet == InitSnippet /\ [][NextSnippet]_vars

\* ------------------------------------------- the version check on its own
\* The texts the version query may write to stderr: nothing, or an optional
\* leading character and prefix token followed by up to MaxVerLen characters.
RECURSIVE TextsUpTo(_)
TextsUpTo(n) ==
    IF n = 0 THEN {<<>>}
    ELSE LET shorter == TextsUpTo(n - 1)
         IN  shorter \cup { Append(s, c) : s \in { x \in shorter : Len(x) = n - 1 },
                                           c \in VerChars }

VersionPrefixes == {<<>>, <<"J">>, <<"O">>, <<"_", "J">>}

VersionOutputs(n) == { pre \o s : pre \in VersionPrefixes, s \in TextsUpTo(n) }

InitVersion ==
    /\ phase = "loaded"
    /\ DEBUG_MODE = FALSE
    /\ javaExecutablePath = "null"
    /\ client = Undefined
    /\ activeEditor = NoEditor
    /\ windowEditor = NoEditor
    /\ progressBar = [visible |-> FALSE, text |-> 0]
    /\ timers = <<>>
    /\ reports = <<>>
    /\ tasks = <<>>
    /\ conns = <<>>
    /\ emitted = <<>>
    /\ vStderr \in VersionOutputs(MaxVerLen)
    /\ vOutcome = [kind |-> "pending", reason |-> "none", version |-> <<>>]
    /\ platform = "linux"
    /\ picks = <<>>
    /\ edits = <<>>

\* The exec callback of lines 104-121 on its own: the promise is settled.
versionQuery ==
    /\ vOutcome.kind = "pending"
    /\ vOutcome' = validateJava(vStderr)
    /\ UNCHANGED <<phase, DEBUG_MODE, javaExecutablePath, client, editorVars,
                   progressVars, tasks, conns, emitted, vStderr, snippetVars>>

NextVersion == versionQuery

SpecVersion == InitVersion /\ [][NextVersion]_vars

\* ===================================================================== claims
\* ---- the version string as it is written, read without the regexp
\* The text of a version line between its prefix token (the first character)
\* and the first double quote after it.
RECURSIVE UpToQuote(_, _)
UpToQuote(s, i) ==
    IF i > Len(s) \/ s[i] = "Q" THEN <<>> ELSE <<s[i]>> \o UpToQuote(s, i + 1)

HasClosingQuote(s) == \E i \in 2..Len(s) : s[i] = "Q"

\* v is written <major> or <major>.<minor>... on one line.
IsVersionText(v) ==
    /\ DigitRun(v, 1) >= 1
    /\ \/ DigitRun(v, 1) = Len(v)
       \/ /\ DigitRun(v, 1) < Len(v)
          /\ v[DigitRun(v, 1) + 1] = "."
          /\ DigitRun(v, DigitRun(v, 1) + 2) >= 1
    /\ \A i \in DOMAIN v : v[i] # "N"

\* The complete decimal numbers written in v; a missing minor counts as 0.
WrittenMajor(v) == parseInt(SubSeq(v, 1, DigitRun(v, 1)))
WrittenMinor(v) ==
    LET a == DigitRun(v, 1)
    IN  IF a + 1 <= Len(v) /\ v[a + 1] = "."
        THEN parseInt(SubSeq(v, a + 2, a + 1 + DigitRun(v, a + 2)))
        ELSE 0

\* Version 1.8 or above.
AtLeast18(major, minor) == major > 1 \/ (major = 1 /\ minor >= 8)

\* stderr is a version line: a prefix token, a version text, the closing quote.
IsVersionLine(s) ==
    /\ Len(s) >= 1
    /\ s[1] \in {"J", "O"}
    /\ HasClosingQuote(s)
    /\ IsVersionText(UpToQuote(s, 2))

QueryDone == vOutcome.kind # "pending"

\* C1: for every version output of the form (java|openjdk) version
\* "<major>.<minor>..." (or with no minor part), validateJava resolves if and
\* only if major > 1, or major = 1 and minor >= 8, major and minor being the
\* complete decimal numbers written in the version string.
C1_AcceptsIffAtLeast18 ==
    (QueryDone /\ IsVersionLine(vStderr)) =>
        LET v == UpToQuote(vStderr, 2)
        IN  (vOutcome.kind = "resolve") <=> AtLeast18(WrittenMajor(v), WrittenMinor(v))

\* C2: validateJava has three mutually exclusive outcomes decided by the output:
\* it resolves; it fails with "unsupported version" exactly when a version
\* string is recognized (the pattern matches) and that version is below 1.8; it
\* fails with "runtime not found" exactly when no version string is recognized.
C2_ThreeOutcomes ==
    QueryDone =>
        LET match == regexpExec(vStderr)
            recognized == vStderr # <<>> /\ match.found
            below == ~AtLeast18(WrittenMajor(match.full), WrittenMinor(match.full))
        IN  /\ (vOutcome.kind = "resolve") <=> (recognized /\ ~below)
            /\ (vOutcome.reason = "UnsupportedJavaVersion") <=> (recognized /\ below)
            /\ (vOutcome.reason = "CantFindJava") <=> ~recognized

\* ---- the bootstrap
\* The validation failures of validateJava.
ValidationFailures == {"CantFindJava", "UnsupportedJavaVersion"}

\* Invocation t has run the version validation (it is waiting for its result, it
\* passed, or it failed).
RanValidation(t) ==
    \/ tasks[t].pc = "validateJava"
    \/ tasks[t].validated
    \/ tasks[t].failure \in ValidationFailures

\* C3: in development mode no start attempt (first start, restart or retry)
\* runs the Java version validation, whatever the Java locator returned, and
\* every connection uses the fixed local socket; in production mode every start
\* attempt runs the validation, a connection is created only by an attempt
\* whose validation passed, and every connection uses a spawned process.
C3_DevModeSkipsValidation ==
    /\ DEBUG_MODE =>
          /\ \A t \in DOMAIN tasks : ~RanValidation(t)
          /\ \A c \in DOMAIN conns : conns[c].transport = "socket"
    /\ ~DEBUG_MODE =>
          /\ \A t \in DOMAIN tasks :
                /\ RanValidation(t)
                /\ tasks[t].pc \in {"watch", "onReady", "ready"} => tasks[t].validated
          /\ \A c \in DOMAIN conns :
                /\ conns[c].transport = "process"
                /\ tasks[conns[c].task].validated

\* C3's case: in development mode, with a Java locator result that would fail
\* the validation, a first start, a retry after a failed connection and the
\* retry's socket connection.
C3_Witness ==
    /\ DEBUG_MODE
    /\ javaExecutablePath = "oldJdk"
    /\ \E t \in DOMAIN tasks :
          /\ tasks[t].origin = "retry"
          /\ tasks[t].conn # Undefined
          /\ conns[tasks[t].conn].transport = "socket"

\* The message of a failed attempt carries the failure's description.
DescribesFailure(task) ==
    \/ task.message = task.failure
    \/ task.message = "Failed to start: " \o task.failure

\* C4: every startup failure (runtime missing, runtime unsupported, connection
\* failed) shows a message that carries the failure's description, and every
\* choice of "Try again" re-runs the startup sequence from the top: a new
\* invocation that validates first (unless in development mode).
C4_FailureMessageAndRetry ==
    /\ \A t \in DOMAIN tasks :
          tasks[t].pc = "dialog" =>
              /\ tasks[t].failure # "none"
              /\ DescribesFailure(tasks[t])
    /\ Cardinality({t \in DOMAIN tasks : tasks[t].origin = "retry"})
          >= Cardinality({t \in DOMAIN tasks : tasks[t].pc = "Try again"})
    /\ \A t \in DOMAIN tasks :
          (tasks[t].origin = "retry" /\ ~DEBUG_MODE) => RanValidation(t)

\* C5: retries are user-driven: a retry is begun only in a step in which the
\* user chooses "Try again" on a failure message; dismissing the message
\* begins no new start attempt.
C5_RetryOnlyOnTryAgain ==
    [][ (/\ Len(tasks') > Len(tasks)
         /\ tasks'[Len(tasks')].origin = "retry")
        => \E t \in DOMAIN tasks :
              tasks[t].pc = "dialog" /\ tasks'[t].pc = "Try again" ]_vars

\* A connection that is started, has not failed and is not stopped.
Running(c) == conns[c].hs # "failed" /\ IsLive(c)

\* C6: at every moment at most one connection is live, and it is the one that
\* `client` references.
C6_SingleLiveConnection ==
    \A c \in DOMAIN conns : Running(c) => c = client

\* C7: requests are sent only on a Ready connection: no emmy/updateConfig
\* request is issued on a connection that has not completed its handshake, has
\* failed or has been stopped.  (The annotator's requests are issued inside
\* annotator.ts, from the calls recorded in `emitted`.)
C7_RequestsOnlyWhenReady ==
    \A i \in DOMAIN emitted :
        emitted[i].kind = "emmy/updateConfig" => emitted[i].ready

\* The invocation a first start makes from the current state: validation first
\* in production mode, straight to the connection in development mode.
FreshStart(origin) ==
    IF DEBUG_MODE
    THEN [pc |-> "watch", origin |-> origin, exe |-> "none",
          validated |-> FALSE, conn |-> Undefined,
          failure |-> "none", message |-> "none"]
    ELSE [pc |-> "validateJava", origin |-> origin,
          exe |-> IF javaExecutablePath = "null" THEN "java" ELSE javaExecutablePath,
          validated |-> FALSE, conn |-> Undefined,
          failure |-> "none", message |-> "none"]

\* C8: restartServer invoked when no connection exists behaves like a first
\* start: it begins the same startup sequence, asks no stop of anything, and
\* leaves `client` alone.
C8_RestartWithoutClientIsStart ==
    [][ (client = Undefined /\ restartCommand)
        => /\ tasks' = Append(tasks, FreshStart("restart"))
           /\ conns' = conns
           /\ client' = client ]_vars

\* C8's case: a restart was invoked while no connection existed.
C8_Witness ==
    /\ client = Undefined
    /\ \E t \in DOMAIN tasks : tasks[t].origin = "restart"

\* ---- the progress indicator
\* A step in which a progress report is handled / the oldest timer fires.
ReportArrives == Len(reports') = Len(reports) + 1
TimerFires == timers # <<>> /\ timers' = Tail(timers) /\ reports' = reports

\* C9: a hide timer is scheduled only by a report with percent >= 1 and is
\* never cancelled: a report with percent < 1 shows the indicator and leaves
\* the pending timers alone, and a timer leaves the pending ones only by
\* firing, which hides the indicator.
C9_HideTimerNeverCancelled ==
    [][ /\ \A i \in DOMAIN timers' : reports'[timers'[i]] >= 1
        /\ ReportArrives =>
              /\ progressBar'.visible
              /\ timers' = IF reports'[Len(reports')] >= 1
                           THEN Append(timers, Len(reports'))
                           ELSE timers
        /\ ~ReportArrives =>
              \/ timers' = timers
              \/ TimerFires /\ ~progressBar'.visible ]_vars

\* C9's case: report 1 (percent >= 1) scheduled a hide, report 2 (percent < 1)
\* showed the indicator again, and then the timer fired and hid it.
C9_Witness ==
    /\ reports = <<1, 0>>
    /\ timers = <<>>
    /\ progressBar = [visible |-> FALSE, text |-> 2]

\* C10 as stated: a hide scheduled by an earlier report does not hide an
\* indicator shown by a later report (last write wins).
C10_LaterReportSupersedesHide ==
    [][ (TimerFires /\ Head(timers) < Len(reports))
        => progressBar'.visible = progressBar.visible ]_vars

\* C10 amended: a scheduled hide is not superseded by a later report: the
\* report leaves it pending, and when it fires the indicator is hidden even if
\* a later report has shown it.
C10_HideNotSuperseded ==
    [][ /\ ReportArrives =>
              /\ Len(timers') >= Len(timers)
              /\ SubSeq(timers', 1, Len(timers)) = timers
        /\ TimerFires => ~progressBar'.visible ]_vars

\* C10's case: two reports with percent >= 1; the first one's timer has fired
\* after the second report and hidden the indicator, the second one's timer is
\* still pending.
C10_Witness ==
    /\ reports = <<1, 1>>
    /\ timers = <<2>>
    /\ ~progressBar.visible

\* ---- the annotator
\* The documents of the annotator calls among what a step sent out.
AnnotatedDocs(em) ==
    LET calls == SelectSeq(em, LAMBDA m : m.kind = "requestAnnotators")
    IN  [i \in DOMAIN calls |-> calls[i].doc]

C12_LostSocketIsFailure ==
    \A c \in DOMAIN conns :
        conns[c].lost =>
            /\ conns[c].hs # "ready"
            /\ tasks[conns[c].task].pc # "ready"

\* ---- the debug snippet
\* The library of each platform branch, with forward slashes.
WindowsLibrary(arch) ==
    <<"C:", "/", "ext", "/", "debugger", "/", "emmy", "/", "windows", "/", arch,
      "/", "?.dll">>
MacLibrary ==
    <<"", "/", "ext", "/", "debugger", "/", "emmy", "/", "mac", "/",
      "emmy_core.dylib">>
LinuxLibrary ==
    <<"", "/", "ext", "/", "debugger", "/", "emmy", "/", "linux", "/",
      "emmy_core.so">>

\* The libraries of the platform branches that apply.
BranchLibraries(arch) ==
    (IF platform = "win32" THEN {WindowsLibrary(arch)} ELSE {})
    \cup (IF platform = "darwin" THEN {MacLibrary} ELSE {})
    \cup (IF platform = "linux" THEN {LinuxLibrary} ELSE {})

\* One snippet was inserted into editor, with the library of the single
\* platform branch that applies, host localhost and port 9966.
InsertsOneSnippet(editor, arch) ==
    /\ Len(edits') = Len(edits) + 1
    /\ SubSeq(edits', 1, Len(edits)) = edits
    /\ edits'[Len(edits')].doc = editor
    /\ Cardinality(BranchLibraries(arch)) = 1
    /\ edits'[Len(edits')].cpath \in BranchLibraries(arch)
    /\ edits'[Len(edits')].host = "localhost"
    /\ edits'[Len(edits')].port = 9966

\* C13: insertEmmyDebugCode makes no edit when there is no active editor, when
\* the active document is not of the target language, or when the platform is
\* Windows and the architecture prompt is dismissed; in every other case it
\* inserts exactly one snippet, with the library path of the single platform
\* branch that applies, host localhost and port 9966.
C13_SnippetOnlyWhenApplicable ==
    [][ /\ insertEmmyDebugCode =>
              IF windowEditor = NoEditor \/ languageId(windowEditor) # "lua"
              THEN edits' = edits /\ picks' = picks
              ELSE IF platform = "win32"
              THEN edits' = edits /\ picks' = Append(picks, windowEditor)
              ELSE InsertsOneSnippet(windowEditor, "none")
        /\ \A i \in DOMAIN picks :
              /\ quickPickAnswered(i, "undefined") => edits' = edits
              /\ \A arch \in Archs :
                    quickPickAnswered(i, arch) => InsertsOneSnippet(picks[i], arch) ]_vars

\* ---- restart
\* The invocation of startServer a step begins, if it begins one.
BeginsStart(origin) ==
    /\ Len(tasks') = Len(tasks) + 1
    /\ tasks'[Len(tasks')].origin = origin

\* C14: restartServer invoked while a connection exists asks the stop of that
\* connection and begins no start in that step; the start chained on the stop
\* begins only in a step before which the stop has completed, never while it
\* is pending; and after a stop that failed no chained start remains.
C14_RestartStartsAfterStop ==
    [][ /\ (restartCommand /\ client # Undefined) =>
              /\ tasks' = tasks
              /\ conns'[client].st \in {"requested", "done"}
              /\ conns'[client].waiters = conns[client].waiters + 1
        /\ BeginsStart("restart") => client = Undefined
        /\ BeginsStart("restartAfterStop") =>
              \E c \in DOMAIN conns :
                  /\ conns[c].st = "done"
                  /\ conns[c].waiters > 0
                  /\ conns'[c].waiters = conns[c].waiters - 1
        /\ \A c \in DOMAIN conns' :
              conns'[c].waiters > 0 => conns'[c].st \in {"requested", "done"} ]_vars

\* C14's case: a restart stopped a connection and, the stop completed, began
\* the start that created the next connection.
C14_Witness ==
    \E t \in DOMAIN tasks, c \in DOMAIN conns :
        /\ tasks[t].origin = "restartAfterStop"
        /\ conns[c].task < t
        /\ conns[c].st = "done"
        /\ tasks[t].conn # Undefined

\* ---- configuration changes
\* restartServer was invoked in the step: it began a start (no connection) or
\* asked the stop of the connection and chained a start on it.
RestartTriggered ==
    IF client = Undefined
    THEN BeginsStart("restart") /\ conns' = conns
    ELSE /\ tasks' = tasks
         /\ conns'[client].waiters = conns[client].waiters + 1

\* C15: on a configuration change for which the Java locator returns path, a
\* restart is triggered if and only if path differs from the cached path, the
\* cache holds path afterwards (so that the same result triggers nothing the
\* next time), and the annotator's configuration refresh runs once, with or
\* without a restart.
C15_RestartIffJavaPathChanged ==
    [][ \A path \in JavaPaths :
            onDidChangeConfiguration(path) =>
                /\ javaExecutablePath' = path
                /\ IF path # javaExecutablePath
                   THEN RestartTriggered
                   ELSE tasks' = tasks /\ conns' = conns
                /\ Len(emitted') = 1
                /\ emitted'[1].kind = "annotatorConfiguration" ]_vars

\* C15's case: production mode, activated with no Java path; a configuration
\* change resolved jdk8, cached it, refreshed the annotator's configuration and
\* triggered the restart that latched the new path.
C15_Witness ==
    /\ ~DEBUG_MODE
    /\ javaExecutablePath = "jdk8"
    /\ Len(emitted) = 1
    /\ emitted[1].kind = "annotatorConfiguration"
    /\ Len(tasks) = 2
    /\ tasks[1].exe = "java"
    /\ tasks[2].origin = "restart"
    /\ tasks[2].exe = "jdk8"

\* ---- the order of a start attempt
\* The moves of an invocation of startServer: from the validation to the
\* watcher's snapshot, to the wait for readiness, to Ready; to the failure
\* message from each of them; and the answer to the message.
AttemptMoves ==
    {<<"validateJava", "watch">>, <<"watch", "onReady">>, <<"onReady", "ready">>,
     <<"validateJava", "dialog">>, <<"watch", "dialog">>, <<"onReady", "dialog">>,
     <<"dialog", "Try again">>, <<"dialog", "dismissed">>}

\* Invocation t moves from pc a to pc b in the step.
Moves(t, a, b) == tasks[t].pc = a /\ tasks'[t].pc = b

\* C16: every start attempt goes through its steps in order: the validation
\* (not in development mode), the watcher's snapshot, the creation and start of
\* the connection, the readiness signal, and then, in one step, the
\* registration of the progress handler and the annotator trigger for the
\* editor current at that moment.  No handler is registered on, and no initial
\* trigger issued for, a connection that has not signalled readiness.
C16_StartStepsInOrder ==
    [][ /\ \A t \in DOMAIN tasks :
              /\ tasks'[t].pc # tasks[t].pc =>
                    <<tasks[t].pc, tasks'[t].pc>> \in AttemptMoves
              /\ Moves(t, "validateJava", "watch") => tasks'[t].validated
              /\ Moves(t, "watch", "onReady") =>
                    /\ DEBUG_MODE \/ tasks[t].validated
                    /\ conns' = Append(conns, conns'[Len(conns')])
                    /\ tasks'[t].conn = Len(conns')
                    /\ conns'[Len(conns')].hs = "pending"
                    /\ ~conns'[Len(conns')].handler
              /\ Moves(t, "onReady", "ready") =>
                    /\ conns'[tasks[t].conn].hs = "ready"
                    /\ conns'[client'].hs = "ready"
                    /\ conns'[client'].handler
                    /\ AnnotatedDocs(emitted') =
                          IF windowEditor \in Docs /\ languageId(windowEditor) = "lua"
                          THEN <<windowEditor>> ELSE <<>>
                    /\ \A i \in DOMAIN emitted' : emitted'[i].ready
        /\ Len(tasks') > Len(tasks) =>
              tasks'[Len(tasks')].pc = IF DEBUG_MODE' THEN "watch" ELSE "validateJava"
        /\ Len(conns') > Len(conns) =>
              \E t \in DOMAIN tasks : Moves(t, "watch", "onReady")
        /\ \A c \in DOMAIN conns' :
              /\ conns'[c].handler => conns'[c].hs = "ready"
              /\ (conns'[c].handler /\ (c \notin DOMAIN conns \/ ~conns[c].handler)) =>
                    \E t \in DOMAIN tasks : Moves(t, "onReady", "ready")
        /\ (tasks' # tasks /\ AnnotatedDocs(emitted') # <<>>) =>
              \E t \in DOMAIN tasks : Moves(t, "onReady", "ready") ]_vars

\* C16's case: a production-mode attempt went through all its steps: it
\* validated, its connection is ready and carries the handler, and the
\* annotator was triggered for the target-language editor in focus.
C16_Witness ==
    \E t \in DOMAIN tasks :
        /\ ~DEBUG_MODE
        /\ tasks[t].pc = "ready"
        /\ tasks[t].validated
        /\ conns[tasks[t].conn].hs = "ready"
        /\ conns[tasks[t].conn].handler
        /\ windowEditor = "a.lua"
        /\ AnnotatedDocs(emitted) = <<"a.lua">>

\* ---- the config watcher's updates
\* The watcher's initial snapshot has been handed to the bootstrap: some
\* invocation of doStartServer is past line 146.
SnapshotHandedOver == \E t \in DOMAIN tasks : tasks[t].conn # Undefined

\* C17: every update event the config watcher emits after its initial snapshot
\* was handed to the bootstrap is forwarded to the server exactly once, as an
\* emmy/updateConfig request with the event as its payload, on a connection
\* that can carry it (a Ready one), also while a start, a restart or a retry
\* is in progress.
C17_UpdateForwardedOnce ==
    [][ \A e \in ConfigUpdates :
            (SnapshotHandedOver /\ onConfigUpdate(e)) =>
                /\ Len(emitted') = 1
                /\ emitted'[1].kind = "emmy/updateConfig"
                /\ emitted'[1].payload = e
                /\ emitted'[1].ready ]_vars

\* ---- deactivation
\* C18: after deactivate has run no connection is left running or starts
\* running: every connection has been asked to stop (or has failed to start),
\* also those of a start, restart or retry that was in flight.
C18_NoConnectionAfterDeactivate ==
    phase = "deactivated" =>
        \A c \in DOMAIN conns : conns[c].st # "none" \/ conns[c].hs = "failed"

\* ---- the validated executable
\* C19: in production mode the executable a start attempt spawns the server
\* with is the one that passed validateJava in that attempt.
C19_SpawnsValidatedExecutable ==
    ~DEBUG_MODE =>
        \A c \in DOMAIN conns :
            /\ tasks[conns[c].task].validated
            /\ conns[c].exe = tasks[conns[c].task].exe

\* ---- startup with a persistent user
\* The runtime validation succeeds: development mode, or the executable the
\* cached path names passes validateJava.
ValidationSucceeds ==
    \/ DEBUG_MODE
    \/ validateJava(StderrOf(ExePath(javaExecutablePath))).kind = "resolve"

\* The bootstrap is Ready with the progress handler registered.
ReadyWithHandler == IsReady(client) /\ conns[client].handler

\* C20: with a user who answers every failure message with "Try again", if
\* from some point on the extension is active and the runtime validation
\* succeeds (and, by fairness, the server completes its handshake), the
\* bootstrap eventually is Ready with the progress handler registered.
C20_EventuallyReady ==
    (<>[](phase = "active" /\ ValidationSucceeds)) => <>ReadyWithHandler

\* C20's case: a start failed, the user chose "Try again", and the retry is
\* Ready with the handler registered.
C20_Witness ==
    /\ ReadyWithHandler
    /\ \E t \in DOMAIN tasks : tasks[t].pc = "Try again"
    /\ tasks[conns[client].task].origin = "retry"
    /\ tasks[conns[client].task].pc = "ready"

=============================================================================
